---- MODULE Spec2Model ----
(***************************************************************************)
(* A model of project/mapparser.py: the first pass (parse_file, which      *)
(* turns node and way elements into records and learns the prefixed street *)
(* names), the second pass of __main__ (which rewrites the streets that    *)
(* lack a prefix) and the pure helpers parse_postcode and                   *)
(* correct_street_name.                                                     *)
(*                                                                         *)
(* Text is modelled as a sequence of characters.  A character is a string: *)
(* an ASCII character is itself ("a", ".", " "), a Cyrillic letter is      *)
(* "cy_" and its transliteration for the small letter and "CY_" for the    *)
(* capital one ("cy_u" "cy_l" is the street prefix root, "cy_b" "cy_u"     *)
(* "cy_l" the boulevard one, "cy_p" "cy_l" the square one), "TAB" is the   *)
(* tabulator and "rdquo", "bdquo", "ldquo" are the three curly quotes.     *)
(***************************************************************************)
EXTENDS Integers, Sequences, FiniteSets, TLC

\* ------------------------------------------------------------------------
\* Bounds of the model
\* ------------------------------------------------------------------------

\* Elements of a document that is made of elements with at most one child.
MaxElems == 3

\* Children of the elements of the documents that combine several tags.
MaxTags == 2

\* Characters of the text handed to parse_postcode on its own.
MaxCodeLen == 4

\* Pieces (words, prefixes, separators, quotes) of the text handed to
\* correct_street_name on its own.
MaxPieces == 3

\* ------------------------------------------------------------------------
\* Text
\* ------------------------------------------------------------------------

\* None.  Every value that may be None is a tuple: a text is the tuple of its
\* characters, a number n is PyInt(n).
None == <<"None">>
PyInt(n) == <<"int", n>>

\* The white space that strip() removes and that \s matches.
Whitespace == {" ", "TAB"}

LowerTable ==
  ("A" :> "a") @@ ("B" :> "b") @@ ("C" :> "c") @@ ("D" :> "d") @@ ("E" :> "e") @@ ("F" :> "f") @@ ("G" :> "g") @@ ("H" :> "h") @@ ("I" :> "i") @@ ("J" :> "j") @@ ("K" :> "k") @@ ("L" :> "l") @@ ("M" :> "m") @@ ("N" :> "n") @@ ("O" :> "o") @@ ("P" :> "p") @@ ("Q" :> "q") @@ ("R" :> "r") @@ ("S" :> "s") @@ ("T" :> "t") @@ ("U" :> "u") @@ ("V" :> "v") @@ ("W" :> "w") @@ ("X" :> "x") @@ ("Y" :> "y") @@ ("Z" :> "z") @@ ("CY_A" :> "cy_a") @@ ("CY_B" :> "cy_b") @@ ("CY_V" :> "cy_v") @@ ("CY_G" :> "cy_g") @@ ("CY_D" :> "cy_d") @@ ("CY_E" :> "cy_e") @@ ("CY_ZH" :> "cy_zh") @@ ("CY_Z" :> "cy_z") @@ ("CY_I" :> "cy_i") @@ ("CY_J" :> "cy_j") @@ ("CY_K" :> "cy_k") @@ ("CY_L" :> "cy_l") @@ ("CY_M" :> "cy_m") @@ ("CY_N" :> "cy_n") @@ ("CY_O" :> "cy_o") @@ ("CY_P" :> "cy_p") @@ ("CY_R" :> "cy_r") @@ ("CY_S" :> "cy_s") @@ ("CY_T" :> "cy_t") @@ ("CY_U" :> "cy_u") @@ ("CY_F" :> "cy_f") @@ ("CY_H" :> "cy_h") @@ ("CY_C" :> "cy_c") @@ ("CY_CH" :> "cy_ch") @@ ("CY_SH" :> "cy_sh") @@ ("CY_SHT" :> "cy_sht") @@ ("CY_ER" :> "cy_er") @@ ("CY_SOFT" :> "cy_soft") @@ ("CY_YU" :> "cy_yu") @@ ("CY_YA" :> "cy_ya") @@ ("CY_UK_I" :> "cy_uk_i")

\* unicode.lower() of one character.
LowerChar(c) == IF c \in DOMAIN LowerTable THEN LowerTable[c] ELSE c

\* unicode.lower()
Lower(s) == [i \in 1..Len(s) |-> LowerChar(s[i])]

\* s.startswith(p)
StartsWith(s, p) == Len(p) <= Len(s) /\ SubSeq(s, 1, Len(p)) = p

RECURSIVE LStrip(_)
LStrip(s) == IF s # <<>> /\ Head(s) \in Whitespace THEN LStrip(Tail(s)) ELSE s

RECURSIVE RStrip(_)
RStrip(s) ==
  IF s # <<>> /\ s[Len(s)] \in Whitespace THEN RStrip(SubSeq(s, 1, Len(s) - 1)) ELSE s

\* s.strip()
Strip(s) == RStrip(LStrip(s))

\* s.replace(old, new): every occurrence of old, found from the left and not
\* overlapping, is replaced.
RECURSIVE Replace(_, _, _)
Replace(s, old, new) ==
  IF Len(s) < Len(old) THEN s
  ELSE IF StartsWith(s, old)
       THEN new \o Replace(SubSeq(s, Len(old) + 1, Len(s)), old, new)
       ELSE <<Head(s)>> \o Replace(Tail(s), old, new)

\* s.split(sep) for a separator of one character.
RECURSIVE Split(_, _)
Split(s, sep) ==
  IF \E i \in 1..Len(s) : s[i] = sep
  THEN LET i == CHOOSE k \in 1..Len(s) : s[k] = sep /\ \A j \in 1..(k - 1) : s[j] # sep
       IN  <<SubSeq(s, 1, i - 1)>> \o Split(SubSeq(s, i + 1, Len(s)), sep)
  ELSE <<s>>

\* ------------------------------------------------------------------------
\* Street names
\* ------------------------------------------------------------------------

UL == <<"cy_u", "cy_l">>
BUL == <<"cy_b", "cy_u", "cy_l">>
PL == <<"cy_p", "cy_l">>
UL_DOT == UL \o <<".">>
BUL_DOT == BUL \o <<".">>
PL_DOT == PL \o <<".">>
UL_DOT_SP == UL \o <<".", " ">>
BUL_DOT_SP == BUL \o <<".", " ">>
PL_DOT_SP == PL \o <<".", " ">>
ULICA == <<"cy_u", "cy_l", "cy_i", "cy_c", "cy_a">>
BULEVARD == <<"cy_b", "cy_u", "cy_l", "cy_e", "cy_v", "cy_a", "cy_r", "cy_d">>
PLOSHTAD == <<"cy_p", "cy_l", "cy_o", "cy_sht", "cy_a", "cy_d">>

\* Expected street prefixes, in the order of the alternation of the regex.
street_prefixes == <<BUL, UL, PL>>

\* The end of the separator (\s\.|\.\s|\.|\s)(?=\S) that starts right after
\* position j of s, the alternatives tried in this order, or 0 if none matches.
SeparatorEnd(s, j) ==
  LET at(k) == IF k <= Len(s) THEN s[k] ELSE ""
      space(k) == at(k) \in Whitespace
      ahead(k) == k <= Len(s) /\ s[k] \notin Whitespace
  IN  IF space(j + 1) /\ at(j + 2) = "." /\ ahead(j + 3) THEN j + 2
      ELSE IF at(j + 1) = "." /\ space(j + 2) /\ ahead(j + 3) THEN j + 2
      ELSE IF at(j + 1) = "." /\ ahead(j + 2) THEN j + 1
      ELSE IF space(j + 1) /\ ahead(j + 2) THEN j + 1
      ELSE 0

\* The match of street_prefix_regex that starts at position i of s: the root
\* (group 1, ignoring case) and the position of the last character of the
\* match; <<>> if there is none.
MatchAt(s, i) ==
  LET root(p) == IF i + Len(p) - 1 <= Len(s) THEN SubSeq(s, i, i + Len(p) - 1) ELSE <<>>
      hit(p) == Lower(root(p)) = p /\ SeparatorEnd(s, i + Len(p) - 1) > 0
      hits == {n \in 1..Len(street_prefixes) : hit(street_prefixes[n])}
  IN  IF hits = {} THEN <<>>
      ELSE LET n == CHOOSE m \in hits : \A o \in hits : m <= o
               p == street_prefixes[n]
           IN  <<root(p), SeparatorEnd(s, i + Len(p) - 1)>>

\* The substitution that replaces the root and leaves the separator in the
\* text.
RECURSIVE street_prefix_regex_sub_keep_separator(_, _)
street_prefix_regex_sub_keep_separator(s, i) ==
  IF i > Len(s) THEN <<>>
  ELSE LET m == MatchAt(s, i)
       IN  IF m = <<>> THEN <<s[i]>> \o street_prefix_regex_sub_keep_separator(s, i + 1)
           ELSE Lower(m[1]) \o <<".", " ">>
                \o street_prefix_regex_sub_keep_separator(s, i + Len(m[1]))

\* street_prefix_regex.sub(lambda m: m.group(1).lower() + ". ", s), from
\* position i on.
RECURSIVE street_prefix_regex_sub(_, _)
street_prefix_regex_sub(s, i) ==
  IF i > Len(s) THEN <<>>
  ELSE LET m == MatchAt(s, i)
       IN  IF m = <<>> THEN <<s[i]>> \o street_prefix_regex_sub(s, i + 1)
           ELSE Lower(m[1]) \o <<".", " ">> \o street_prefix_regex_sub(s, m[2] + 1)

\* Street names which had more than one variance of capitalization.
manually_corrected_names ==
  << <<"cy_u", "cy_l", ".", " ", "CY_G", "cy_e", "cy_n", ".", " ", "CY_J", "cy_o", "cy_s", "cy_i", "cy_f", " ", "CY_V", ".", " ", "CY_G", "cy_u", "cy_r", "cy_k", "cy_o">>,
     <<"cy_b", "cy_u", "cy_l", ".", " ", "CY_G", "cy_e", "cy_n", ".", " ", "CY_T", "cy_o", "cy_t", "cy_l", "cy_e", "cy_b", "cy_e", "cy_n">>,
     <<"cy_b", "cy_u", "cy_l", ".", " ", "CY_C", "cy_a", "cy_r", "cy_i", "cy_g", "cy_r", "cy_a", "cy_d", "cy_s", "cy_k", "cy_o", " ", "cy_sh", "cy_o", "cy_s", "cy_e">>,
     <<"cy_b", "cy_u", "cy_l", ".", " ", "CY_CH", "cy_e", "cy_r", "cy_n", "cy_i", " ", "cy_v", "cy_r", "cy_er", "cy_h">>,
     <<"cy_u", "cy_l", ".", " ", "CY_M", "cy_a", "cy_g", "cy_n", "cy_a", "cy_u", "cy_r", "cy_s", "cy_k", "cy_a", " ", "cy_sh", "cy_k", "cy_o", "cy_l", "cy_a">>,
     <<"cy_u", "cy_l", ".", " ", "CY_S", "cy_t", "cy_a", "cy_r", "cy_a", " ", "cy_p", "cy_l", "cy_a", "cy_n", "cy_i", "cy_n", "cy_a">>,
     <<"cy_b", "cy_u", "cy_l", ".", " ", "CY_V", "cy_i", "cy_t", "cy_o", "cy_sh", "cy_a">>,
     <<"CY_C", "cy_a", "cy_r", " ", "CY_B", "cy_o", "cy_r", "cy_i", "cy_s", " ", "I", "I", "I">>,
     <<"CY_R", "cy_o", "cy_d", "cy_o", "cy_p", "cy_s", "cy_k", "cy_i", " ", "cy_i", "cy_z", "cy_v", "cy_o", "cy_r">>,
     <<"CY_G", "cy_o", "cy_c", "cy_e", " ", "CY_D", "cy_e", "cy_l", "cy_ch", "cy_e", "cy_v">>,
     <<"CY_T", "cy_r", "cy_i", " ", "cy_u", "cy_sh", "cy_i">>,
     <<"CY_V", "cy_r", "cy_er", "cy_h", " ", "CY_M", "cy_a", "cy_n", "cy_ch", "cy_o">>,
     <<"CY_CH", "cy_e", "cy_r", "cy_n", "cy_i", " ", "cy_v", "cy_r", "cy_er", "cy_h">>,
     <<"CY_D", "cy_e", "cy_t", "cy_e", "cy_l", "cy_i", "cy_n", " ", "cy_v", "cy_o", "cy_j", "cy_v", "cy_o", "cy_d", "cy_a">> >>

manually_translated_streets ==
  { << <<"A", "n", "d", "r", "e", "y", " ", "S", "a", "h", "a", "r", "o", "v", " ", "B", "l", "v", "d">>,
        <<"CY_A", "cy_n", "cy_d", "cy_r", "cy_e", "cy_j", " ", "CY_S", "cy_a", "cy_h", "cy_a", "cy_r", "cy_o", "cy_v">> >>,
    << <<"A", "t", "a", "n", "a", "s", " ", "K", "i", "r", "c", "h", "e", "v">>,
        <<"CY_A", "cy_t", "cy_a", "cy_n", "cy_a", "cy_s", " ", "CY_K", "cy_i", "cy_r", "cy_ch", "cy_e", "cy_v">> >>,
    << <<"B", "o", "u", "l", "e", "v", "a", "r", "d", " ", "I", "s", "k", "a", "r", "s", "k", "o", " ", "S", "h", "o", "s", "e">>,
        <<"CY_I", "cy_s", "cy_k", "cy_er", "cy_r", "cy_s", "cy_k", "cy_o", " ", "cy_sh", "cy_o", "cy_s", "cy_e">> >>,
    << <<"G", "e", "n", ".", " ", "A", "s", "e", "n", " ", "N", "i", "k", "o", "l", "o", "v">>,
        <<"CY_G", "cy_e", "cy_n", ".", " ", "CY_A", "cy_s", "cy_e", "cy_n", " ", "CY_N", "cy_i", "cy_k", "cy_o", "cy_l", "cy_o", "cy_v">> >>,
    << <<"G", "e", "o", "r", "g", "i", " ", "S", ".", " ", "R", "a", "k", "o", "v", "s", "k", "i">>,
        <<"CY_G", "cy_e", "cy_o", "cy_r", "cy_g", "cy_i", " ", "CY_S", ".", " ", "CY_R", "cy_a", "cy_k", "cy_o", "cy_v", "cy_s", "cy_k", "cy_i">> >>,
    << <<"G", "o", "l", "y", "a", "m", "a", " ", "m", "o", "g", "i", "l", "a", " ", "s", "t", "r", "e", "e", "t">>,
        <<"CY_G", "cy_o", "cy_l", "cy_ya", "cy_m", "cy_a", " ", "CY_M", "cy_o", "cy_g", "cy_i", "cy_l", "cy_a">> >>,
    << <<"G", "o", "t", "s", "e", " ", "D", "e", "l", "c", "h", "e", "v">>,
        <<"CY_G", "cy_o", "cy_c", "cy_e", " ", "CY_D", "cy_e", "cy_l", "cy_ch", "cy_e", "cy_v">> >>,
    << <<"K", "u", "m", "a", "t", "a", " ", "1">>,
        <<"CY_K", "cy_u", "cy_m", "cy_a", "cy_t", "cy_a">> >>,
    << <<"M", "a", "d", "a", "r", "a">>,
        <<"CY_M", "cy_a", "cy_d", "cy_a", "cy_r", "cy_a">> >>,
    << <<"M", "e", "t", "o", "d", "i", " ", "P", "o", "p", "o", "v", " ", "S", "t", "r", ".">>,
        <<"CY_M", "cy_e", "cy_t", "cy_o", "cy_d", "cy_i", " ", "CY_P", "cy_o", "cy_p", "cy_o", "cy_v">> >>,
    << <<"N", "i", "k", "o", "l", "a", " ", "G", "a", "b", "r", "o", "v", "s", "k", "i">>,
        <<"CY_N", "cy_i", "cy_k", "cy_o", "cy_l", "cy_a", " ", "CY_G", "cy_a", "cy_b", "cy_r", "cy_o", "cy_v", "cy_s", "cy_k", "cy_i">> >>,
    << <<"P", "a", "n", "a", "y", "o", "t", " ", "V", "o", "l", "o", "v">>,
        <<"CY_P", "cy_a", "cy_n", "cy_a", "cy_j", "cy_o", "cy_t", " ", "CY_V", "cy_o", "cy_l", "cy_o", "cy_v">> >>,
    << <<"P", "y", "r", "w", "a">>,
        <<"CY_P", "cy_er", "cy_r", "cy_v", "cy_a", " ", "CY_B", "cy_er", "cy_l", "cy_g", "cy_a", "cy_r", "cy_s", "cy_k", "cy_a", " ", "cy_a", "cy_r", "cy_m", "cy_i", "cy_ya">> >>,
    << <<"S", "l", "a", "v", "y", "a", "n", "s", "k", "a">>,
        <<"CY_S", "cy_l", "cy_a", "cy_v", "cy_ya", "cy_n", "cy_s", "cy_k", "cy_a">> >>,
    << <<"S", "r", "e", "b", "a", "r", "n", "a">>,
        <<"CY_S", "cy_r", "cy_e", "cy_b", "cy_er", "cy_r", "cy_n", "cy_a">> >>,
    << <<"T", "s", "a", "r", "i", "g", "r", "a", "d", "s", "k", "o", " ", "C", "h", "a", "u", "s", "s", "e", " ", "B", "l", "v", "d">>,
        <<"CY_C", "cy_a", "cy_r", "cy_i", "cy_g", "cy_r", "cy_a", "cy_d", "cy_s", "cy_k", "cy_o", " ", "cy_sh", "cy_o", "cy_s", "cy_e">> >>,
    << <<"b", "u", "l", ".", "T", "z", "a", "r", " ", "B", "o", "r", "i", "s", " ", "I", "I", "I">>,
        <<"CY_C", "cy_a", "cy_r", " ", "CY_B", "cy_o", "cy_r", "cy_i", "cy_s", " ", "I", "I", "I">> >>,
    << <<"CY_C", "cy_a", "cy_r", " ", "CY_B", "cy_o", "cy_r", "cy_i", "cy_s", " ", "CY_UK_I", "CY_UK_I", "CY_UK_I">>,
        <<"CY_C", "cy_a", "cy_r", " ", "CY_B", "cy_o", "cy_r", "cy_i", "cy_s", " ", "I", "I", "I">> >> }

\* The dictionary {lower name: name} built from the list above.
manual_street_names_ref ==
  [k \in {Lower(manually_corrected_names[n]) : n \in 1..Len(manually_corrected_names)} |->
     LET n == CHOOSE m \in 1..Len(manually_corrected_names) :
                 Lower(manually_corrected_names[m]) = k
                 /\ \A o \in 1..Len(manually_corrected_names) :
                      Lower(manually_corrected_names[o]) = k => o <= m
     IN  manually_corrected_names[n]]

\* Unnecessary quotes: the straight ones and the three curly ones.
bad_chars == {"'", "dquote", "rdquo", "bdquo", "ldquo"}

\* Step one of correct_street_name: strip, then drop the quotes.
CleanQuotes(str_name) == SelectSeq(Strip(str_name), LAMBDA c : c \notin bad_chars)

\* Step two of correct_street_name: the full words to their shortened version.
ShortenFullWord(s) ==
  IF StartsWith(s, ULICA) THEN Replace(s, ULICA, UL_DOT)
  ELSE IF StartsWith(s, BULEVARD) THEN Replace(s, BULEVARD, BUL_DOT)
  ELSE IF StartsWith(s, PLOSHTAD) THEN Replace(s, PLOSHTAD, PL_DOT)
  ELSE s

\* Steps three to five of correct_street_name: the manual corrections, the
\* manual translations, the regex.
ApplyCorrections(s) ==
  IF Lower(s) \in DOMAIN manual_street_names_ref THEN manual_street_names_ref[Lower(s)]
  ELSE IF \E t \in manually_translated_streets : t[1] = s
       THEN (CHOOSE t \in manually_translated_streets : t[1] = s)[2]
       ELSE street_prefix_regex_sub(s, 1)

correct_street_name(str_name) == ApplyCorrections(ShortenFullWord(CleanQuotes(str_name)))

\* ------------------------------------------------------------------------
\* Dictionaries
\* ------------------------------------------------------------------------

\* d.get(k)
Get(d, k) == IF k \in DOMAIN d THEN d[k] ELSE None

\* d[k] = v
Put(d, k, v) == (k :> v) @@ d

\* d[k] += 1 for a defaultdict(int)
Incr(d, k) == IF k \in DOMAIN d THEN [d EXCEPT ![k] = @ + 1] ELSE (k :> 1) @@ d

\* ------------------------------------------------------------------------
\* Post codes
\* ------------------------------------------------------------------------

DigitValue ==
  ("0" :> 0) @@ ("1" :> 1) @@ ("2" :> 2) @@ ("3" :> 3) @@ ("4" :> 4) @@
  ("5" :> 5) @@ ("6" :> 6) @@ ("7" :> 7) @@ ("8" :> 8) @@ ("9" :> 9)

RECURSIVE DecimalValue(_)
DecimalValue(ds) ==
  IF ds = <<>> THEN 0
  ELSE 10 * DecimalValue(SubSeq(ds, 1, Len(ds) - 1)) + DigitValue[ds[Len(ds)]]

ValueError == <<"ValueError">>

\* int(code): white space around the number and one sign are accepted;
\* ValueError stands for the exception.
ParseInt(code) ==
  LET t == Strip(code)
      signed == t # <<>> /\ Head(t) \in {"+", "-"}
      ds == IF signed THEN Tail(t) ELSE t
  IN  IF ds # <<>> /\ \A i \in 1..Len(ds) : ds[i] \in DOMAIN DigitValue
      THEN IF signed /\ Head(t) = "-" THEN PyInt(0 - DecimalValue(ds))
           ELSE PyInt(DecimalValue(ds))
      ELSE ValueError

PostcodeMin == 1000
PostcodeMax == 2000
FIXME == <<"F", "I", "X", "M", "E">>
fixme == <<"f", "i", "x", "m", "e">>

\* parse_postcode that accepts the upper end of the range.
parse_postcode_inclusive(code, fixme_count) ==
  LET numeric == ParseInt(code)
  IN  IF numeric # ValueError
      THEN IF PostcodeMin <= numeric[2] /\ numeric[2] <= PostcodeMax
           THEN [kind |-> "return", value |-> numeric, fixme_codes |-> fixme_count]
           ELSE [kind |-> "SkipItem", value |-> None, fixme_codes |-> fixme_count]
      ELSE IF code = FIXME \/ code = fixme
           THEN [kind |-> "return", value |-> None, fixme_codes |-> fixme_count + 1]
           ELSE [kind |-> "SkipItem", value |-> None, fixme_codes |-> fixme_count]

\* parse_postcode(code), called when the global fixme_codes has the value
\* fixme_count: how it ends ("return" or "SkipItem"), what it returns and the
\* value it leaves in fixme_codes.
parse_postcode(code, fixme_count) ==
  LET numeric == ParseInt(code)
  IN  IF numeric # ValueError
      THEN IF PostcodeMin <= numeric[2] /\ numeric[2] < PostcodeMax
           THEN [kind |-> "return", value |-> numeric, fixme_codes |-> fixme_count]
           ELSE [kind |-> "SkipItem", value |-> None, fixme_codes |-> fixme_count]
      ELSE IF code = FIXME \/ code = fixme
           THEN [kind |-> "return", value |-> None, fixme_codes |-> fixme_count + 1]
           ELSE [kind |-> "SkipItem", value |-> None, fixme_codes |-> fixme_count]

\* ------------------------------------------------------------------------
\* Elements and records
\* ------------------------------------------------------------------------

\* Tags we're interested in collecting
COLLECTED_ITEMS == {"node", "way"}

\* Tags for which we get the location
POSITIONED_ITEMS == {"node"}

\* Tags for which we collect node references
REFERENCE_ITEMS == {"way"}

HTTP == <<"h", "t", "t", "p">>
ZHK_DOT == <<"cy_zh", "cy_k", ".">>
manually_skipped_streets ==
  { <<"n", "o">>,
    <<"a", "p", "a", "r", "t", "m", "e", "n", "t", "s">>,
    <<"c">>,
    <<"T", "i", "e", "t", "o", "t", "i", "e">> }

skip_street(orig_street_name) ==
  \/ StartsWith(orig_street_name, HTTP)
  \/ StartsWith(orig_street_name, ZHK_DOT)
  \/ orig_street_name \in manually_skipped_streets

\* add_address_value without its test for None: the address is created
\* whatever the value.
add_address_value_unguarded(item, field, value) ==
  LET address == IF "address" \in DOMAIN item THEN item["address"] ELSE << >>
  IN  IF value = None THEN Put(item, "address", address)
      ELSE Put(item, "address", Put(address, field, value))

\* add_address_value(item, field, value)
add_address_value(item, field, value) ==
  IF value = None THEN item
  ELSE LET address == IF "address" \in DOMAIN item THEN item["address"] ELSE << >>
       IN  Put(item, "address", Put(address, field, value))

\* parse_user(element): the dictionary it returns and the globals it leaves.
parse_user(element, g) ==
  LET user_name == Get(element.attrib, "user")
      user_id == Get(element.attrib, "uid")
      g1 == IF user_name = None
            THEN [g EXCEPT !.missing_user_data["username"] = @ + 1] ELSE g
      g2 == IF user_id = None
            THEN [g1 EXCEPT !.missing_user_data["uid"] = @ + 1] ELSE g1
  IN  [value |-> [name |-> user_name, id |-> user_id], g |-> g2]

\* float(text)
Float(text) == <<"float", text>>

\* dateutil.parser.parse(text)
DateTime(text) == <<"datetime", text>>

\* parse_location(element)
parse_location(element, g) ==
  LET lat == Get(element.attrib, "lat")
      lon == Get(element.attrib, "lon")
  IN  IF lat = None
      THEN [value |-> <<>>,
            g |-> [g EXCEPT !.missing_location_data["lat"] = @ + 1,
                            !.missing_location_data[element.tag] = @ + 1]]
      ELSE IF lon = None
           THEN [value |-> <<>>, g |-> [g EXCEPT !.missing_location_data["lon"] = @ + 1]]
           ELSE [value |-> <<Float(lat), Float(lon)>>, g |-> g]

\* parse_common_field(element, field).  When the attribute is missing, the
\* counter that is incremented is missing_common_fields[value], and value is
\* None: missing_common_fields is a plain dict whose keys are "version",
\* "timestamp" and "changeset", so that the increment raises KeyError.
parse_common_field(element, field, g) ==
  LET value == Get(element.attrib, field)
  IN  IF value = None
      THEN [kind |-> "KeyError", value |-> None, g |-> g]
      ELSE [kind |-> "return", value |-> value, g |-> g]

\* parse_node_refs(element)
parse_node_refs(element) ==
  LET nds == SelectSeq(element.children, LAMBDA c : c.tag = "nd")
  IN  [i \in 1..Len(nds) |-> nds[i].attrib["ref"]]

K_amenity == <<"a", "m", "e", "n", "i", "t", "y">>
K_name == <<"n", "a", "m", "e">>
K_addr_colon == <<"a", "d", "d", "r", ":">>
K_postcode == <<"p", "o", "s", "t", "c", "o", "d", "e">>
K_street == <<"s", "t", "r", "e", "e", "t">>
K_suburb == <<"s", "u", "b", "u", "r", "b">>

\* SaveCorrectName that keeps the case of the key.
SaveCorrectName_keep_case(g, correct_name) ==
  IF StartsWith(correct_name, BUL_DOT_SP)
  THEN [g EXCEPT !.saved_bul = Put(@, Replace(correct_name, BUL_DOT_SP, <<>>), correct_name)]
  ELSE IF StartsWith(correct_name, UL_DOT_SP)
  THEN [g EXCEPT !.saved_str = Put(@, Replace(correct_name, UL_DOT_SP, <<>>), correct_name)]
  ELSE IF StartsWith(correct_name, PL_DOT_SP)
  THEN [g EXCEPT !.saved_pl = Put(@, Replace(correct_name, PL_DOT_SP, <<>>), correct_name)]
  ELSE g

\* The part of parse_element that saves a corrected street name for the
\* second pass.
SaveCorrectName(g, correct_name) ==
  IF StartsWith(correct_name, BUL_DOT_SP)
  THEN [g EXCEPT !.saved_bul =
          Put(@, Lower(Replace(correct_name, BUL_DOT_SP, <<>>)), correct_name)]
  ELSE IF StartsWith(correct_name, UL_DOT_SP)
  THEN [g EXCEPT !.saved_str =
          Put(@, Lower(Replace(correct_name, UL_DOT_SP, <<>>)), correct_name)]
  ELSE IF StartsWith(correct_name, PL_DOT_SP)
  THEN [g EXCEPT !.saved_pl =
          Put(@, Lower(Replace(correct_name, PL_DOT_SP, <<>>)), correct_name)]
  ELSE g

\* The body of the loop of parse_element over the children, for one child.
\* st is [kind, item, g]: how parse_element stands ("return" while it runs),
\* the record and the globals.
ParseSubTag(st, sub_tag) ==
  IF sub_tag.tag # "tag" THEN st
  ELSE
  LET k == sub_tag.attrib["k"]
      v == sub_tag.attrib["v"]
      split == Split(k, ":")
      counted(s) == [s EXCEPT !.g.address_types = Incr(@, split[2])]
  IN  IF k = K_amenity THEN [st EXCEPT !.item = Put(@, "amenity", Strip(v))]
      ELSE IF StartsWith(k, K_addr_colon)
      THEN IF Len(split) = 2
           THEN IF split[2] = K_postcode
                THEN LET r == parse_postcode(v, st.g.fixme_codes)
                         g1 == [st.g EXCEPT !.fixme_codes = r.fixme_codes]
                     IN  IF r.kind = "SkipItem"
                         THEN [st EXCEPT !.kind = "SkipItem", !.g = g1]
                         ELSE counted([st EXCEPT
                                        !.item = add_address_value(@, "postcode", r.value),
                                        !.g = g1])
                ELSE IF split[2] = K_street /\ ~skip_street(v)
                THEN LET correct_name == correct_street_name(v)
                         g1 == [st.g EXCEPT
                                  !.street_names = Incr(@, correct_name),
                                  !.lowered_street_names = Incr(@, Lower(correct_name))]
                     IN  counted([st EXCEPT
                                    !.item = add_address_value(@, "street", correct_name),
                                    !.g = SaveCorrectName(g1, correct_name)])
                ELSE IF split[2] = K_suburb
                THEN counted([st EXCEPT !.item = add_address_value(@, "suburb", Strip(v))])
                ELSE counted(st)
           ELSE st
      ELSE IF k = K_name THEN [st EXCEPT !.item = Put(@, "name", Strip(v))]
      ELSE st

\* The loop of parse_element over the children, from child i on; it ends
\* with the first child that raises.
RECURSIVE ParseSubTags(_, _, _)
ParseSubTags(st, children, i) ==
  IF i > Len(children) \/ st.kind # "return" THEN st
  ELSE ParseSubTags(ParseSubTag(st, children[i]), children, i + 1)

\* parse_element(element) with the globals g: how it ends ("return",
\* "SkipItem" or "KeyError"), the record it returns and the globals it leaves.
parse_element(element, g) ==
  LET g0 == [g EXCEPT !.element_fields = @ \cup DOMAIN element.attrib]
      user == parse_user(element, g0)
      timestamp == parse_common_field(element, "timestamp", user.g)
      changeset == parse_common_field(element, "changeset", timestamp.g)
      version == parse_common_field(element, "version", changeset.g)
      item0 == [id |-> Get(element.attrib, "id"),
                user |-> user.value,
                timestamp |-> DateTime(timestamp.value),
                changeset |-> changeset.value,
                version |-> version.value,
                type |-> element.tag]
      location == parse_location(element, version.g)
      item1 == IF element.tag \in POSITIONED_ITEMS
               THEN Put(item0, "location", location.value) ELSE item0
      g1 == IF element.tag \in POSITIONED_ITEMS THEN location.g ELSE version.g
      item2 == IF element.tag \in REFERENCE_ITEMS
               THEN Put(item1, "node_refs", parse_node_refs(element)) ELSE item1
  IN  IF timestamp.kind = "KeyError" THEN [kind |-> "KeyError", item |-> None, g |-> user.g]
      ELSE IF changeset.kind = "KeyError"
      THEN [kind |-> "KeyError", item |-> None, g |-> timestamp.g]
      ELSE IF version.kind = "KeyError"
      THEN [kind |-> "KeyError", item |-> None, g |-> changeset.g]
      ELSE ParseSubTags([kind |-> "return", item |-> item2, g |-> g1], element.children, 1)

\* ------------------------------------------------------------------------
\* State
\* ------------------------------------------------------------------------

VARIABLES
  doc,                    \* the node, way and other elements of the file, in document order
  pos,                    \* the element whose start event parse_file handles next
  chunk,                  \* where the part of the file read so far ends: [elem, children]
  pc,                     \* "first_pass", "second_pass", "done", "error" (or "unit")
  error,                  \* the exception that ended the run, or None
  data,                   \* the list of records of parse_file, then processed_data
  skipped_items,
  returned,               \* history: processed_data as parse_file returned it
  idx,                    \* the entry the loop of the second pass handles next
  db,                     \* the records handed to add_record
  missing_user_data,
  missing_location_data,
  missing_common_fields,
  element_fields,
  fixme_codes,
  saved_bul,
  saved_str,
  saved_pl,
  address_types,
  street_names,
  lowered_street_names,
  call                    \* a call of one function on its own: [fn, arg, before, out]

globals == <<missing_user_data, missing_location_data, missing_common_fields,
             element_fields, fixme_codes, saved_bul, saved_str, saved_pl,
             address_types, street_names, lowered_street_names>>

vars == <<doc, chunk, pos, pc, error, data, skipped_items, returned, idx, db,
          globals, call>>

\* The module globals as one value, for the functions that update them.
G ==
  [missing_user_data |-> missing_user_data,
   missing_location_data |-> missing_location_data,
   missing_common_fields |-> missing_common_fields,
   element_fields |-> element_fields,
   fixme_codes |-> fixme_codes,
   saved_bul |-> saved_bul,
   saved_str |-> saved_str,
   saved_pl |-> saved_pl,
   address_types |-> address_types,
   street_names |-> street_names,
   lowered_street_names |-> lowered_street_names]

SetGlobals(g) ==
  /\ missing_user_data' = g.missing_user_data
  /\ missing_location_data' = g.missing_location_data
  /\ missing_common_fields' = g.missing_common_fields
  /\ element_fields' = g.element_fields
  /\ fixme_codes' = g.fixme_codes
  /\ saved_bul' = g.saved_bul
  /\ saved_str' = g.saved_str
  /\ saved_pl' = g.saved_pl
  /\ address_types' = g.address_types
  /\ street_names' = g.street_names
  /\ lowered_street_names' = g.lowered_street_names

\* The globals when the module is loaded.
InitGlobals ==
  /\ missing_user_data = [username |-> 0, uid |-> 0]
  /\ missing_location_data = [lat |-> 0, lon |-> 0, node |-> 0, way |-> 0]
  /\ missing_common_fields = [version |-> 0, timestamp |-> 0, changeset |-> 0]
  /\ element_fields = {}
  /\ fixme_codes = 0
  /\ saved_bul = << >>
  /\ saved_str = << >>
  /\ saved_pl = << >>
  /\ address_types = << >>
  /\ street_names = << >>
  /\ lowered_street_names = << >>

\* ------------------------------------------------------------------------
\* Documents
\* ------------------------------------------------------------------------

Tag(k, v) == [tag |-> "tag", attrib |-> ("k" :> k) @@ ("v" :> v), children |-> <<>>]
Nd(ref) == [tag |-> "nd", attrib |-> ("ref" :> ref), children |-> <<>>]

CommonAttrib ==
  ("user" :> <<"u">>) @@ ("uid" :> <<"7">>) @@ ("timestamp" :> <<"2", "0", "2", "0">>)
  @@ ("changeset" :> <<"3">>) @@ ("version" :> <<"1">>)
NodeAttrib == CommonAttrib @@ ("lat" :> <<"4", "2">>) @@ ("lon" :> <<"2", "3">>)

Node(children) == [tag |-> "node", attrib |-> NodeAttrib, children |-> children]
Way(children) == [tag |-> "way", attrib |-> CommonAttrib, children |-> children]
Relation == [tag |-> "relation", attrib |-> CommonAttrib, children |-> <<>>]

\* f without the key k.
Without(f, k) == [x \in DOMAIN f \ {k} |-> f[x]]

K_addr_postcode == K_addr_colon \o K_postcode
K_addr_street == K_addr_colon \o K_street
K_addr_suburb == K_addr_colon \o K_suburb
K_addr_housenumber == K_addr_colon \o <<"h", "o", "u", "s", "e", "n", "u", "m", "b", "e", "r">>
K_addr_street_en == K_addr_street \o <<":", "e", "n">>

V_Bul_Vitosha_cy == <<"CY_B", "cy_u", "cy_l", ".", " ", "CY_V", "cy_i", "cy_t", "cy_o", "cy_sh", "cy_a">>
V_bul_Vitosha_cy == <<"cy_b", "cy_u", "cy_l", ".", " ", "CY_V", "cy_i", "cy_t", "cy_o", "cy_sh", "cy_a">>
V_ul_Vitosha_cy == <<"cy_u", "cy_l", ".", " ", "CY_V", "cy_i", "cy_t", "cy_o", "cy_sh", "cy_a">>
V_pl_Vitosha_cy == <<"cy_p", "cy_l", ".", " ", "CY_V", "cy_i", "cy_t", "cy_o", "cy_sh", "cy_a">>
V_vitosha_cy == <<"cy_v", "cy_i", "cy_t", "cy_o", "cy_sh", "cy_a">>
V_Bul_Vitosha == <<"B", "u", "l", ".", " ", "V", "i", "t", "o", "s", "h", "a">>
V_vitosha == <<"v", "i", "t", "o", "s", "h", "a">>
V_no == <<"n", "o">>
V_ul_Shipka_ul_Vitosha_cy ==
  <<"cy_u", "cy_l", ".", " ", "CY_SH", "cy_i", "cy_p", "cy_k", "cy_a", " ">> \o V_ul_Vitosha_cy

\* The street values of the documents.
StreetValues ==
  {V_Bul_Vitosha_cy, V_ul_Vitosha_cy, V_pl_Vitosha_cy, V_vitosha_cy,
   V_Bul_Vitosha, V_vitosha, ULICA, V_ul_Shipka_ul_Vitosha_cy}

\* The children an element with several children is made of.
TagPool ==
  { Tag(K_addr_postcode, <<"1", "5", "0", "0">>),
    Tag(K_addr_postcode, <<"2", "5", "0", "0">>),
    Tag(K_addr_postcode, FIXME),
    Tag(K_addr_street, V_ul_Vitosha_cy),
    Tag(K_addr_street, V_no),
    Tag(K_addr_suburb, <<"L", "o", "z", "e", "n", "e", "c", " ">>),
    Tag(K_addr_housenumber, <<"5">>),
    Tag(K_addr_street_en, V_Bul_Vitosha),
    Tag(K_amenity, <<" ", "c", "a", "f", "e">>) }

\* The sequences of at most n elements of S.
RECURSIVE SeqUpTo(_, _)
SeqUpTo(S, n) ==
  IF n = 0 THEN {<<>>}
  ELSE LET shorter == SeqUpTo(S, n - 1)
       IN  shorter \cup {Append(s, x) : s \in shorter, x \in S}

\* Nodes with one addr:street child.
StreetElems == {Node(<<Tag(K_addr_street, v)>>) : v \in StreetValues}

\* Nodes with up to MaxTags children.
TagElems == {Node(children) : children \in SeqUpTo(TagPool, MaxTags)}

\* Nodes and ways that lack one attribute.
AttrElems ==
  {[Node(<<>>) EXCEPT !.attrib = Without(@, a)] :
      a \in {"user", "uid", "timestamp", "changeset", "version", "lat", "lon"}}
  \cup {[Way(<<Nd(<<"1">>)>>) EXCEPT !.attrib = Without(@, a)] : a \in {"uid", "version"}}
  \cup {Relation}

\* The elements before and after an element of TagElems or AttrElems.
ElemsBefore == { Node(<<>>) }
ElemsAfter ==
  { Node(<<Tag(K_addr_street, V_vitosha_cy)>>),
    Way(<<Nd(<<"1">>), Tag(K_name, <<"X">>), Nd(<<"2">>)>>) }

Around(S) ==
  {before \o <<e>> \o after :
     before \in SeqUpTo(ElemsBefore, 1), e \in S, after \in SeqUpTo(ElemsAfter, 1)}

\* The id of the element at position i of a document.
IdOf(i) == <<CHOOSE c \in DOMAIN DigitValue : DigitValue[c] = i>>

WithIds(elems) == [i \in 1..Len(elems) |-> [elems[i] EXCEPT !.attrib = Put(@, "id", IdOf(i))]]

Documents ==
  {WithIds(elems) : elems \in SeqUpTo(StreetElems, MaxElems) \cup Around(TagElems \cup AttrElems)}

\* Where the part of a document that iterparse has read can end when the
\* start event of an element is handled: after all the children of every
\* element (elem = 0), or after the first n children of one element, the
\* rest of which is read later.  The elements here are far shorter than the
\* 16 KiB read at a time, so that at most one such end falls among them.
Boundaries(d) ==
  {[elem |-> 0, children |-> 0]}
  \cup UNION {{[elem |-> p, children |-> n] : n \in 0..(Len(d[p].children) - 1)} :
                p \in {q \in 1..Len(d) : d[q].tag \in COLLECTED_ITEMS}}

\* ------------------------------------------------------------------------
\* parse_file and the second pass
\* ------------------------------------------------------------------------

Init ==
  /\ doc \in Documents
  /\ chunk \in Boundaries(doc)
  /\ pos = 1
  /\ pc = "first_pass"
  /\ error = None
  /\ data = <<>>
  /\ skipped_items = 0
  /\ returned = <<>>
  /\ idx = 1
  /\ db = <<>>
  /\ InitGlobals
  /\ call = [fn |-> "none"]

\* The element at position p as parse_file sees it at its start event.
\* iterparse(events=('start',)) reads the file 16 KiB at a time and hands an
\* element over as soon as its start tag is read: the attributes are there,
\* the children "may or may not be present" (xml.etree.ElementTree.iterparse);
\* they are those that the part of the file read so far holds.
Visible(p) == IF chunk.elem = p THEN chunk.children ELSE Len(doc[p].children)

AtStart(p) == [doc[p] EXCEPT !.children = SubSeq(@, 1, Visible(p))]

\* One iteration of the loop of parse_file on a node or a way whose record
\* is appended.
parse_file_append ==
  /\ pc = "first_pass" /\ pos <= Len(doc) /\ doc[pos].tag \in COLLECTED_ITEMS
  /\ LET r == parse_element(AtStart(pos), G)
     IN  /\ r.kind = "return"
         /\ data' = Append(data, r.item)
         /\ SetGlobals(r.g)
  /\ pos' = pos + 1
  /\ UNCHANGED <<doc, chunk, pc, error, skipped_items, returned, idx, db, call>>

\* One iteration of the loop of parse_file on a node or a way for which
\* parse_element raises SkipItem.
parse_file_skip ==
  /\ pc = "first_pass" /\ pos <= Len(doc) /\ doc[pos].tag \in COLLECTED_ITEMS
  /\ LET r == parse_element(AtStart(pos), G)
     IN  /\ r.kind = "SkipItem"
         /\ skipped_items' = skipped_items + 1
         /\ SetGlobals(r.g)
  /\ pos' = pos + 1
  /\ UNCHANGED <<doc, chunk, pc, error, data, returned, idx, db, call>>

\* One iteration of the loop of parse_file on a node or a way for which
\* parse_element raises another exception: nothing catches it.
parse_file_raise ==
  /\ pc = "first_pass" /\ pos <= Len(doc) /\ doc[pos].tag \in COLLECTED_ITEMS
  /\ LET r == parse_element(AtStart(pos), G)
     IN  /\ r.kind \notin {"return", "SkipItem"}
         /\ error' = <<r.kind>>
         /\ SetGlobals(r.g)
  /\ pc' = "error"
  /\ pos' = pos + 1
  /\ UNCHANGED <<doc, chunk, data, skipped_items, returned, idx, db, call>>

\* One iteration of the loop of parse_file on any other element: it is
\* cleared.
parse_file_other ==
  /\ pc = "first_pass" /\ pos <= Len(doc) /\ doc[pos].tag \notin COLLECTED_ITEMS
  /\ pos' = pos + 1
  /\ UNCHANGED <<doc, chunk, pc, error, data, skipped_items, returned, idx, db, globals, call>>

\* parse_file that returns before the last element is handled.
parse_file_return_early ==
  /\ pc = "first_pass" /\ pos >= Len(doc)
  /\ pc' = "second_pass"
  /\ returned' = data
  /\ idx' = 1
  /\ UNCHANGED <<doc, chunk, pos, error, data, skipped_items, db, globals, call>>

\* The end of the loop of parse_file: it returns data, and __main__ goes on
\* to the second pass.
parse_file_return ==
  /\ pc = "first_pass" /\ pos > Len(doc)
  /\ pc' = "second_pass"
  /\ returned' = data
  /\ idx' = 1
  /\ UNCHANGED <<doc, chunk, pos, error, data, skipped_items, db, globals, call>>

\* HasPrefix that asks for the space after the period.
HasPrefix_with_space(street_name) ==
  \/ StartsWith(street_name, UL_DOT_SP)
  \/ StartsWith(street_name, BUL_DOT_SP)
  \/ StartsWith(street_name, PL_DOT_SP)

\* street_name has one of the prefixes the second pass looks for.
HasPrefix(street_name) ==
  \/ StartsWith(street_name, UL_DOT)
  \/ StartsWith(street_name, BUL_DOT)
  \/ StartsWith(street_name, PL_DOT)

\* SecondPassStreet that looks into the street table first.
SecondPassStreet_street_first(street_name, bul, str, pl) ==
  IF ~HasPrefix(street_name)
  THEN LET street_name_lower == Lower(street_name)
       IN  IF street_name_lower \in DOMAIN str THEN str[street_name_lower]
           ELSE IF street_name_lower \in DOMAIN bul THEN bul[street_name_lower]
           ELSE IF street_name_lower \in DOMAIN pl THEN pl[street_name_lower]
           ELSE UL_DOT_SP \o street_name
  ELSE street_name

\* The street the second pass gives to an entry whose street is street_name.
SecondPassStreet(street_name, bul, str, pl) ==
  IF ~HasPrefix(street_name)
  THEN LET street_name_lower == Lower(street_name)
       IN  IF street_name_lower \in DOMAIN bul THEN bul[street_name_lower]
           ELSE IF street_name_lower \in DOMAIN str THEN str[street_name_lower]
           ELSE IF street_name_lower \in DOMAIN pl THEN pl[street_name_lower]
           ELSE UL_DOT_SP \o street_name
  ELSE street_name

\* The body of the loop of the second pass, up to add_record.
SecondPassEntry(entry, bul, str, pl) ==
  IF "address" \in DOMAIN entry /\ "street" \in DOMAIN entry["address"]
  THEN [entry EXCEPT !["address"]["street"] = SecondPassStreet(@, bul, str, pl)]
  ELSE entry

\* One iteration of the loop of the second pass.
second_pass_iter ==
  /\ pc = "second_pass" /\ idx <= Len(data)
  /\ LET entry == SecondPassEntry(data[idx], saved_bul, saved_str, saved_pl)
     IN  /\ data' = [data EXCEPT ![idx] = entry]
         /\ db' = Append(db, entry)
  /\ idx' = idx + 1
  /\ UNCHANGED <<doc, chunk, pos, pc, error, skipped_items, returned, globals, call>>

\* The end of the loop of the second pass.
main_exit ==
  /\ pc = "second_pass" /\ idx > Len(data)
  /\ pc' = "done"
  /\ UNCHANGED <<doc, chunk, pos, error, data, skipped_items, returned, idx, db, globals, call>>

Next ==
  \/ parse_file_append
  \/ parse_file_skip
  \/ parse_file_raise
  \/ parse_file_other
  \/ parse_file_return
  \/ second_pass_iter
  \/ main_exit

Spec == Init /\ [][Next]_vars

\* ------------------------------------------------------------------------
\* parse_postcode and correct_street_name on their own
\* ------------------------------------------------------------------------

V_Vitosha_cy == <<"CY_V", "cy_i", "cy_t", "cy_o", "cy_sh", "cy_a">>
Fixme == <<"F", "i", "x", "m", "e">>

\* The texts made of at most n pieces of P.
RECURSIVE Texts(_, _)
Texts(P, n) ==
  IF n = 0 THEN {<<>>}
  ELSE LET shorter == Texts(P, n - 1)
       IN  shorter \cup {t \o p : t \in shorter, p \in P}

\* The pieces of the street names handed to correct_street_name.
StreetPieces ==
  {UL_DOT_SP, BUL_DOT_SP, PL_DOT_SP, ULICA, BULEVARD, PLOSHTAD, V_Vitosha_cy, V_vitosha_cy,
   <<" ">>, <<".">>, <<"'">>, <<" ", "rdquo">>, <<"CY_U", "cy_l">>, BUL}

StreetTexts == Texts(StreetPieces, MaxPieces)

\* The characters of the post codes handed to parse_postcode.
CodeChars == {"0", "1", "2", "9", " ", "-", "x"}

CodeTexts ==
  Texts({<<c>> : c \in CodeChars}, MaxCodeLen) \cup {FIXME, fixme, Fixme, <<" ">> \o FIXME}

InitUnit ==
  /\ doc = <<>>
  /\ chunk = [elem |-> 0, children |-> 0]
  /\ pos = 1
  /\ pc = "unit"
  /\ error = None
  /\ data = <<>>
  /\ skipped_items = 0
  /\ returned = <<>>
  /\ idx = 1
  /\ db = <<>>
  /\ InitGlobals
  /\ call \in {[fn |-> "parse_postcode", arg |-> code, out |-> <<>>] : code \in CodeTexts}
              \cup {[fn |-> "correct_street_name", arg |-> name, out |-> <<>>] :
                      name \in StreetTexts}

\* parse_postcode(call.arg)
call_parse_postcode ==
  /\ pc = "unit" /\ call.fn = "parse_postcode" /\ call.out = <<>>
  /\ LET r == parse_postcode(call.arg, fixme_codes)
     IN  /\ call' = [call EXCEPT !.out = <<[kind |-> r.kind, value |-> r.value]>>]
         /\ fixme_codes' = r.fixme_codes
  /\ UNCHANGED <<doc, chunk, pos, pc, error, data, skipped_items, returned, idx, db,
                 missing_user_data, missing_location_data, missing_common_fields,
                 element_fields, saved_bul, saved_str, saved_pl, address_types,
                 street_names, lowered_street_names>>

\* correct_street_name(call.arg), and then correct_street_name of what it
\* returned; the values after the first and the second step are kept.
call_correct_street_name ==
  /\ pc = "unit" /\ call.fn = "correct_street_name" /\ Len(call.out) < 2
  /\ LET str_name == IF call.out = <<>> THEN call.arg ELSE call.out[Len(call.out)].result
     IN  call' = [call EXCEPT !.out = Append(@,
                    [arg |-> str_name,
                     cleaned |-> CleanQuotes(str_name),
                     shortened |-> ShortenFullWord(CleanQuotes(str_name)),
                     result |-> correct_street_name(str_name)])]
  /\ UNCHANGED <<doc, chunk, pos, pc, error, data, skipped_items, returned, idx, db,
                 globals>>

NextUnit == call_parse_postcode \/ call_correct_street_name

SpecUnit == InitUnit /\ [][NextUnit]_vars

\* ------------------------------------------------------------------------
\* Properties
\* ------------------------------------------------------------------------

\* The positions of the elements parse_file has handled.
Handled == 1..(pos - 1)

\* The nodes and ways parse_file has handled.
HandledItems == {p \in Handled : doc[p].tag \in COLLECTED_ITEMS}

\* The records of the list for the element at position p.
RecordsOf(p) == {i \in 1..Len(data) : data[i]["id"] = doc[p].attrib["id"]}

\* The children of the element at position p that are tags with key k.
TagsOf(p, k) ==
  {n \in 1..Len(doc[p].children) :
     doc[p].children[n].tag = "tag" /\ doc[p].children[n].attrib["k"] = k}

ValueOf(p, n) == doc[p].children[n].attrib["v"]

\* A post code that skips the record: a number outside [1000, 2000), or a
\* text that is no number and neither "FIXME" nor "fixme".
BadPostcode(v) ==
  LET numeric == ParseInt(v)
  IN  IF numeric # ValueError THEN ~(1000 <= numeric[2] /\ numeric[2] < 2000)
      ELSE v \notin {FIXME, fixme}

\* The element at position p carries an addr:postcode tag with a bad value.
CarriesBadPostcode(p) == \E n \in TagsOf(p, K_addr_postcode) : BadPostcode(ValueOf(p, n))

\* The ids of the records of a list, in the order of the list.
Ids(records) == [i \in 1..Len(records) |-> records[i]["id"]]

\* The ids of the nodes and ways among the first p elements of the
\* document that carry no bad post code, in document order.
RECURSIVE IdsOfValid(_)
IdsOfValid(p) ==
  IF p = 0 THEN <<>>
  ELSE IF doc[p].tag \in COLLECTED_ITEMS /\ ~CarriesBadPostcode(p)
       THEN Append(IdsOfValid(p - 1), doc[p].attrib["id"])
       ELSE IdsOfValid(p - 1)

\* C1: when parse_file returns, the elements that carry a bad addr:postcode
\* tag are absent from the list, each of them has been counted once as
\* skipped, and all other nodes and ways are in the list in document order.
C1_BadPostcodeDropsOnlyItsElement ==
  pc \in {"second_pass", "done"} =>
    /\ Ids(returned) = IdsOfValid(Len(doc))
    /\ skipped_items = Cardinality({p \in 1..Len(doc) :
                          doc[p].tag \in COLLECTED_ITEMS /\ CarriesBadPostcode(p)})

\* The optional attributes of a node or way.
OptionalAttributes == {"user", "uid", "timestamp", "changeset", "version"}

LacksOptional(p) == OptionalAttributes \ DOMAIN doc[p].attrib # {}

\* C2: a node or way that lacks an optional attribute (user, uid, timestamp,
\* changeset, version) never ends the run and is never skipped: once it is
\* handled, the run has not failed, its record is in the list, and the
\* missing-data counters have been incremented once for each attribute that
\* a handled element lacks.
C2_MissingOptionalAttributeKeepsRecord ==
  /\ \A p \in HandledItems :
       LacksOptional(p) => pc # "error" /\ (pc = "first_pass" => RecordsOf(p) # {})
  /\ pc # "error" =>
       missing_user_data["username"] + missing_user_data["uid"]
         + missing_common_fields["timestamp"] + missing_common_fields["changeset"]
         + missing_common_fields["version"]
       = Cardinality({<<p, a>> \in HandledItems \X OptionalAttributes :
                        a \notin DOMAIN doc[p].attrib})

\* The children of the element at position p that parse_element has seen.
Seen(p) == 1..Visible(p)

\* The fields of the address that the children of the element at position p
\* seen by parse_element have been parsed into: a post code within the range,
\* a street that skip_street keeps, a suburb.
StoredFields(p) ==
  {"postcode" : n \in {m \in TagsOf(p, K_addr_postcode) \cap Seen(p) :
                         ~BadPostcode(ValueOf(p, m)) /\ ValueOf(p, m) \notin {FIXME, fixme}}}
  \cup {"street" : n \in {m \in TagsOf(p, K_addr_street) \cap Seen(p) :
                            ~skip_street(ValueOf(p, m))}}
  \cup {"suburb" : n \in TagsOf(p, K_addr_suburb) \cap Seen(p)}

\* C3: a record has an address exactly if one of the addr:* tags processed
\* for it was parsed into a stored field (street, postcode or suburb), and
\* the address then has exactly the stored fields; a FIXME post code, a
\* street rejected by skip_street or an unrecognized addr:* key creates no
\* address.
C3_AddressIffStoredField ==
  \A p \in HandledItems : \A i \in RecordsOf(p) :
    /\ "address" \in DOMAIN data[i] <=> StoredFields(p) # {}
    /\ "address" \in DOMAIN data[i] => DOMAIN data[i]["address"] = StoredFields(p)

\* A record without address whose element showed a FIXME post code and a
\* street that skip_street rejects, next to a record with an address.
C3_Witness ==
  \E p, q \in HandledItems : \E i \in RecordsOf(p) : \E j \in RecordsOf(q) :
    /\ \E n \in TagsOf(p, K_addr_postcode) \cap Seen(p) : ValueOf(p, n) = FIXME
    /\ \E n \in TagsOf(p, K_addr_street) \cap Seen(p) : skip_street(ValueOf(p, n))
    /\ "address" \notin DOMAIN data[i]
    /\ "address" \in DOMAIN data[j]

\* The entries the second pass has handled.
Rewritten == 1..Len(db)

HasStreet(entry) == "address" \in DOMAIN entry /\ "street" \in DOMAIN entry["address"]

\* The street of entry i when parse_file returned, and now.
StreetBefore(i) == returned[i]["address"]["street"]
StreetAfter(i) == data[i]["address"]["street"]

\* The street lacks the prefixes the second pass recognizes.
LacksPrefix(street) ==
  /\ ~StartsWith(street, UL_DOT)
  /\ ~StartsWith(street, BUL_DOT)
  /\ ~StartsWith(street, PL_DOT)

\* C4: the second pass gives a street without a recognized prefix the
\* canonical form of the first of the boulevard, street and square tables
\* that holds its lowercased value, and "ul. " followed by the original value
\* if none does.
C4_LookupPriority ==
  \A i \in Rewritten :
    HasStreet(returned[i]) /\ LacksPrefix(StreetBefore(i)) =>
      LET key == Lower(StreetBefore(i))
      IN  /\ key \in DOMAIN saved_bul => StreetAfter(i) = saved_bul[key]
          /\ key \notin DOMAIN saved_bul /\ key \in DOMAIN saved_str =>
               StreetAfter(i) = saved_str[key]
          /\ key \notin DOMAIN saved_bul \cup DOMAIN saved_str /\ key \in DOMAIN saved_pl =>
               StreetAfter(i) = saved_pl[key]
          /\ key \notin DOMAIN saved_bul \cup DOMAIN saved_str \cup DOMAIN saved_pl =>
               StreetAfter(i) = UL_DOT_SP \o StreetBefore(i)

\* A street without prefix whose lowercased value is in the boulevard table
\* and in the street table has got the boulevard form.
C4_Witness ==
  \E i \in Rewritten :
    /\ HasStreet(returned[i]) /\ LacksPrefix(StreetBefore(i))
    /\ Lower(StreetBefore(i)) \in DOMAIN saved_bul \cap DOMAIN saved_str
    /\ saved_bul[Lower(StreetBefore(i))] # saved_str[Lower(StreetBefore(i))]
    /\ StreetAfter(i) = saved_bul[Lower(StreetBefore(i))]

\* C5, as claimed: the second pass leaves a street unchanged exactly if it
\* starts with "ul. ", "bul. " or "pl. " (root, period and space).
C5_UnchangedIffPrefixWithSpace ==
  \A i \in Rewritten :
    HasStreet(returned[i]) =>
      (StreetAfter(i) = StreetBefore(i) <=>
         \/ StartsWith(StreetBefore(i), UL_DOT_SP)
         \/ StartsWith(StreetBefore(i), BUL_DOT_SP)
         \/ StartsWith(StreetBefore(i), PL_DOT_SP))

\* C5, amended: the second pass leaves a street unchanged exactly if it
\* starts with "ul.", "bul." or "pl." (root and period, with or without a
\* space after them).
C5_UnchangedIffPrefixWithPeriod ==
  \A i \in Rewritten :
    HasStreet(returned[i]) =>
      (StreetAfter(i) = StreetBefore(i) <=>
         \/ StartsWith(StreetBefore(i), UL_DOT)
         \/ StartsWith(StreetBefore(i), BUL_DOT)
         \/ StartsWith(StreetBefore(i), PL_DOT))

\* The second pass has left the street "ul." as it was, and has rewritten
\* another one.
C5_Witness ==
  \E i, j \in Rewritten :
    /\ HasStreet(returned[i]) /\ StreetBefore(i) = UL_DOT /\ StreetAfter(i) = UL_DOT
    /\ HasStreet(returned[j]) /\ StreetAfter(j) # StreetBefore(j)

\* The canonical form that wins the lookup of the second pass for key.
FirstHit(key) ==
  IF key \in DOMAIN saved_bul THEN saved_bul[key]
  ELSE IF key \in DOMAIN saved_str THEN saved_str[key]
  ELSE IF key \in DOMAIN saved_pl THEN saved_pl[key]
  ELSE None

\* C6: the second pass starts when parse_file has handled every element, no
\* step of the second pass writes a lookup table, and at the end an entry
\* whose street lacks a prefix has the canonical name that another entry
\* registered, wherever that entry is in the list, before it or after it.
C6_TablesCompleteAndReadOnly ==
  /\ [][/\ pc = "first_pass" /\ pc' = "second_pass" => pos > Len(doc)
        /\ pc = "second_pass" =>
             /\ <<saved_bul, saved_str, saved_pl>>' = <<saved_bul, saved_str, saved_pl>>
             /\ pos' = pos]_vars
  /\ [](pc = "done" =>
         \A i, j \in 1..Len(returned) :
           /\ i # j
           /\ HasStreet(returned[i]) /\ LacksPrefix(StreetBefore(i))
           /\ HasStreet(returned[j]) /\ FirstHit(Lower(StreetBefore(i))) = StreetBefore(j)
           => StreetAfter(i) = StreetBefore(j))

\* At the end, an entry has the canonical name that a later entry registered.
C6_Witness ==
  /\ pc = "done"
  /\ \E i, j \in 1..Len(returned) :
       /\ i < j
       /\ HasStreet(returned[i]) /\ LacksPrefix(StreetBefore(i))
       /\ HasStreet(returned[j]) /\ FirstHit(Lower(StreetBefore(i))) = StreetBefore(j)
       /\ StreetAfter(i) = StreetBefore(j)

\* parse_postcode has been called and has ended.
PostcodeCalled == call.fn = "parse_postcode" /\ call.out # <<>>

\* C7: parse_postcode ends in one of three ways: it returns the number when
\* the text is a number in [1000, 2000), leaving the fixme counter as it was;
\* it returns None and adds one to the fixme counter when the text is
\* "FIXME" or "fixme"; it raises SkipItem, leaving the fixme counter as it
\* was, for every other text.
C7_PostcodeThreeOutcomes ==
  PostcodeCalled =>
    LET numeric == ParseInt(call.arg)
        out == call.out[1]
    IN  IF numeric # ValueError /\ 1000 <= numeric[2] /\ numeric[2] < 2000
        THEN out.kind = "return" /\ out.value = numeric /\ fixme_codes = 0
        ELSE IF call.arg \in {FIXME, fixme}
        THEN out.kind = "return" /\ out.value = None /\ fixme_codes = 1
        ELSE out.kind = "SkipItem" /\ fixme_codes = 0

\* parse_postcode has returned None for "FIXME" and has counted it.
C7_Witness ==
  /\ PostcodeCalled /\ call.arg = FIXME
  /\ call.out[1].kind = "return" /\ call.out[1].value = None /\ fixme_codes = 1

\* correct_street_name has been applied to call.arg, n times in a row.
StreetCalled(n) == call.fn = "correct_street_name" /\ Len(call.out) >= n

\* A text in canonical prefixed form: one of the prefixes "ul. ", "bul. ",
\* "pl. " followed by a name, which starts with a letter.
Letters == DOMAIN LowerTable \cup {LowerTable[c] : c \in DOMAIN LowerTable}

IsCanonical(text) ==
  \E prefix \in {UL_DOT_SP, BUL_DOT_SP, PL_DOT_SP} :
    /\ StartsWith(text, prefix)
    /\ Len(text) > Len(prefix)
    /\ text[Len(prefix) + 1] \in Letters

QuoteFree(text) == \A i \in 1..Len(text) : text[i] \notin bad_chars

Returned(p) == {i \in 1..Len(returned) : returned[i]["id"] = doc[p].attrib["id"]}

\* parse_element has processed the tag addr:street with value v for the
\* element at position p.
ProcessedStreet(p, v) == \E n \in TagsOf(p, K_addr_street) \cap Seen(p) : ValueOf(p, n) = v

\* The scenario of the reconciler for the street values with_prefix and
\* without_prefix: at the end, the record of the first has the street
\* canonical, the boulevard table holds canonical under key, and the record of
\* the second has the street canonical.
Scenario(with_prefix, without_prefix, canonical, key) ==
  pc = "done" =>
    \A p, q \in HandledItems :
      /\ Returned(p) # {} /\ Returned(q) # {}
      /\ Len(doc[p].children) = 1 /\ ProcessedStreet(p, with_prefix)
      /\ Len(doc[q].children) = 1 /\ ProcessedStreet(q, without_prefix)
      => /\ \A i \in Returned(p) : StreetBefore(i) = canonical /\ StreetAfter(i) = canonical
         /\ key \in DOMAIN saved_bul /\ saved_bul[key] = canonical
         /\ \A j \in Returned(q) : StreetAfter(j) = canonical

\* C9, as claimed: with the street "Bul. Vitosha" (Latin letters) in one
\* record and "vitosha" in another, the first becomes the Cyrillic
\* "bul. Vitosha", which is registered in the boulevard table under the
\* Cyrillic key "vitosha", and the second pass gives it to the second.
C9_LatinScenario == Scenario(V_Bul_Vitosha, V_vitosha, V_bul_Vitosha_cy, V_vitosha_cy)

\* C9, amended: the same with the street values in Cyrillic letters.
C9_CyrillicScenario == Scenario(V_Bul_Vitosha_cy, V_vitosha_cy, V_bul_Vitosha_cy, V_vitosha_cy)

\* The run has ended with the two records of the amended scenario, the one
\* without prefix first, and the second pass has given it the boulevard form.
C9_Witness ==
  /\ pc = "done"
  /\ \E p, q \in HandledItems :
       /\ q < p
       /\ ProcessedStreet(p, V_Bul_Vitosha_cy) /\ ProcessedStreet(q, V_vitosha_cy)
       /\ \E j \in Returned(q) :
            StreetBefore(j) = V_vitosha_cy /\ StreetAfter(j) = V_bul_Vitosha_cy

\* text with its first Len(word) characters replaced by short.
LeadingReplaced(text, word, short) == short \o SubSeq(text, Len(word) + 1, Len(text))

\* C10: step two of correct_street_name replaces the full word the text
\* begins with, and only this leading word, by its abbreviation; the rest of
\* the text, later occurrences of the full words included, stays as it was.
C10_OnlyLeadingWordReplaced ==
  StreetCalled(1) =>
    LET cleaned == call.out[1].cleaned
        shortened == call.out[1].shortened
    IN  IF StartsWith(cleaned, ULICA) THEN shortened = LeadingReplaced(cleaned, ULICA, UL_DOT)
        ELSE IF StartsWith(cleaned, BULEVARD)
        THEN shortened = LeadingReplaced(cleaned, BULEVARD, BUL_DOT)
        ELSE IF StartsWith(cleaned, PLOSHTAD)
        THEN shortened = LeadingReplaced(cleaned, PLOSHTAD, PL_DOT)
        ELSE shortened = cleaned

\* ------------------------------------------------------------------------
\* The prefix lookup tables
\* ------------------------------------------------------------------------

\* The three tables with their canonical prefixes.
PrefixTables ==
  { [prefix |-> BUL_DOT_SP, table |-> saved_bul],
    [prefix |-> UL_DOT_SP, table |-> saved_str],
    [prefix |-> PL_DOT_SP, table |-> saved_pl] }

\* The canonical names a table holds.
ValuesOf(table) == {table[k] : k \in DOMAIN table}

\* text without its first Len(prefix) characters.
LeadingStripped(text, prefix) == SubSeq(text, Len(prefix) + 1, Len(text))

HasCanonicalPrefix(street) == \E t \in PrefixTables : StartsWith(street, t.prefix)

\* C11: at every point of the first pass, each value of a table starts with
\* the prefix of the table and its key is the lowercased value without this
\* leading prefix, the rest of the name intact; a stored street is in at most
\* one table, and a stored street without canonical prefix is in none.
C11_TableEntriesWellFormed ==
  /\ \A t \in PrefixTables : \A k \in DOMAIN t.table :
        /\ StartsWith(t.table[k], t.prefix)
        /\ k = Lower(LeadingStripped(t.table[k], t.prefix))
  /\ \A t, u \in PrefixTables : t # u => ValuesOf(t.table) \cap ValuesOf(u.table) = {}
  /\ \A street \in DOMAIN street_names :
        ~HasCanonicalPrefix(street) => \A t \in PrefixTables : street \notin ValuesOf(t.table)

\* C12: a step of parse_file in which parse_element raises SkipItem leaves
\* the three lookup tables as they were before the element, whatever the
\* order of its addr:street and addr:postcode tags; hence once the first pass
\* is over every value of a table is the street of a record of the returned
\* list.
C12_SkipLeavesNoTrace ==
  /\ [][skipped_items' # skipped_items =>
          <<saved_bul, saved_str, saved_pl>>' = <<saved_bul, saved_str, saved_pl>>]_vars
  /\ [](pc \in {"second_pass", "done"} =>
         \A t \in PrefixTables : \A street \in ValuesOf(t.table) :
           \E i \in 1..Len(returned) : HasStreet(returned[i]) /\ StreetBefore(i) = street)
====
